---- MODULE Spec2Model ----
(***************************************************************************)
(* Model of lib/OptimizelyClient.js: the event-emitter promisifier that    *)
(* wraps restler, the OptimizelyClient constructor and its resource        *)
(* methods.  JavaScript values are tagged records, objects are functions   *)
(* from member names to values, a thrown exception is the "err" member of  *)
(* an operation's outcome.                                                 *)
(***************************************************************************)
EXTENDS Integers, Sequences, FiniteSets, TLC

VARIABLES
  client,    \* the OptimizelyClient instance: apiToken, baseUrl, baseHeaders
  o,         \* the value the caller passes as `options` (an object is shared)
  last,      \* the latest call: method, arguments, exception, requests issued
  promise,   \* the promise the adapter returned for the latest call
  emitter,   \* adapter: TRUE when originalMethod returned an emitter
  invoked,   \* adapter: how often originalMethod was applied for the call
  log,       \* adapter: the events the emitter has fired so far
  settles,   \* adapter: how often the promise left the pending state
  find       \* getExperimentByDescription: caller's arguments and the result

vars == <<client, o, last, promise, emitter, invoked, log, settles, find>>

---------------------------------------------------------------------------
(* JavaScript values.  `s` is the result of ToString on the value.         *)

Undef == [t |-> "undefined", s |-> "undefined"]
Null == [t |-> "null", s |-> "null"]
Str(x) == [t |-> "string", s |-> x]
Num(x) == [t |-> "number", s |-> x]
Bool(b) == [t |-> "boolean", s |-> IF b THEN "true" ELSE "false"]
Obj(f) == [t |-> "object", s |-> "[object Object]", o |-> f]
Arr(q) == [t |-> "array", s |-> "", a |-> q]
Err(kind, msg) == [t |-> "error", s |-> msg, kind |-> kind]

EmptyObj == [k \in {} |-> Undef]

\* The text JSON.stringify produces, kept as the value it serialises.
JsonText(x) == [t |-> "string", json |-> x]

IsJsonText(v) == v.t = "string" /\ "json" \in DOMAIN v

typeof(v) == IF v.t \in {"null", "array", "error"} THEN "object" ELSE v.t

Truthy(v) ==
  CASE v.t \in {"undefined", "null"} -> FALSE
    [] v.t = "boolean" -> v.s = "true"
    [] v.t = "number" -> v.s # "0"
    [] v.t = "string" -> IF IsJsonText(v) THEN TRUE ELSE v.s # ""
    [] OTHER -> TRUE

\* a || b
OrElse(a, b) == IF Truthy(a) THEN a ELSE b

\* String(v)
String(v) == Str(v.s)

\* Reading a member of undefined or null throws a TypeError.
CanRead(v) == v.t \notin {"undefined", "null"}

\* v[k] for a value whose members can be read
Get(v, k) ==
  IF v.t = "object" /\ k \in DOMAIN v.o THEN v.o[k] ELSE Undef

\* v[k] = x; an assignment to a member of a primitive is dropped (sloppy mode)
Put(v, k, x) ==
  IF v.t = "object"
    THEN Obj([kk \in (DOMAIN v.o) \cup {k} |-> IF kk = k THEN x ELSE v.o[kk]])
    ELSE v

\* delete v[k]
Delete(v, k) ==
  IF v.t = "object"
    THEN Obj([kk \in (DOMAIN v.o) \ {k} |-> v.o[kk]])
    ELSE v

\* v[k] = v[k] || d
Default(v, k, d) == Put(v, k, OrElse(Get(v, k), d))

\* v[k] = String(v[k] || "")
DefaultString(v, k) == Put(v, k, String(OrElse(Get(v, k), Str(""))))

\* v[k] = !!v[k]
NotNot(v, k) == Put(v, k, Bool(Truthy(Get(v, k))))

\* if (typeof a === ...) a = {k: a}
Wrap(a, k, types) == IF typeof(a) \in types THEN Obj(k :> a) ELSE a

\* JSON.stringify(v): members whose value is undefined are left out
JSONstringify(v) ==
  IF v.t = "object"
    THEN JsonText(Obj([k \in {kk \in DOMAIN v.o : v.o[kk].t # "undefined"} |-> v.o[k]]))
    ELSE JsonText(v)

---------------------------------------------------------------------------
(* encodeURIComponent, over the characters the model's strings use.        *)

UriUnreserved ==
  {"a", "b", "d", "e", "r", "t", "u", "v", "x", "y", "0", "1", "5", "7",
   "-", "_", ".", "~"}

PercentCode ==
  (" " :> "%20") @@ ("&" :> "%26") @@ ("=" :> "%3D") @@ ("/" :> "%2F")
    @@ ("?" :> "%3F") @@ ("%" :> "%25")

CharsOf ==
  ("d1" :> <<"d", "1">>) @@ ("v1" :> <<"v", "1">>) @@ ("a b" :> <<"a", " ", "b">>)
    @@ ("x&y=1" :> <<"x", "&", "y", "=", "1">>) @@ ("5" :> <<"5">>)
    @@ ("7" :> <<"7">>) @@ ("a/b?" :> <<"a", "/", "b", "?">>)
    @@ ("true" :> <<"t", "r", "u", "e">>)

EncodeChar(ch) == IF ch \in UriUnreserved THEN ch ELSE PercentCode[ch]

RECURSIVE EncodeChars(_)
EncodeChars(q) ==
  IF q = <<>> THEN "" ELSE EncodeChar(Head(q)) \o EncodeChars(Tail(q))

encodeURIComponent(v) == EncodeChars(CharsOf[v.s])

---------------------------------------------------------------------------
(* The promisified restler methods.                                        *)

methodNamesToPromisify ==
  {"get", "post", "put", "del", "head", "patch", "json", "postJson", "putJson"}

\* Outcome of a client method that threw before reaching restler: the
\* exception, the options object and `this` as the method left them.
Threw(c, kind, msg, opts) ==
  [err |-> kind, msg |-> msg, reqs |-> <<>>, opts |-> opts, self |-> c]

\* rest.<name>Async(url, options): one call handed to restler.  The Async
\* variant exists only for the names promisifyAll's filter lets through.
restAsync(c, name, url, options, opts) ==
  IF name \in methodNamesToPromisify
    THEN [err |-> "none", msg |-> "",
          reqs |-> <<[name |-> name, url |-> url, options |-> options]>>,
          opts |-> opts, self |-> c]
    ELSE Threw(c, "TypeError", "rest." \o name \o "Async is not a function", opts)

---------------------------------------------------------------------------
(* 0. Constructor                                                          *)

DefaultBaseUrl == "https://www.optimizelyapis.com/experiment/v1/"

OptimizelyClient(apiToken, options) ==
  IF ~Truthy(apiToken)
    THEN [err |-> "Error", msg |-> "Required: apiToken", self |-> Undef]
    ELSE [err |-> "none", msg |-> "",
          self |->
            [apiToken |-> String(apiToken).s,
             baseUrl |-> IF Truthy(options) /\ Truthy(Get(options, "url"))
                           THEN Get(options, "url").s ELSE DefaultBaseUrl,
             baseHeaders |->
               IF Truthy(options) /\ Truthy(Get(options, "OAuth2"))
                 THEN ("Authorization" :> ("Bearer " \o String(apiToken).s))
                        @@ ("Content-Type" :> "application/json")
                 ELSE ("Token" :> String(apiToken).s)
                        @@ ("Content-Type" :> "application/json")]]

\* new OptimizelyClient(apiToken, options, third): a function of two
\* parameters drops a third argument.
Construct(apiToken, options, third) == OptimizelyClient(apiToken, options)

---------------------------------------------------------------------------
(* 1. Projects                                                             *)

ReqOptions(c, method) == [method |-> method, headers |-> c.baseHeaders, data |-> Undef]

ReqOptionsData(c, method, data) ==
  [method |-> method, headers |-> c.baseHeaders, data |-> data]

\* createProject without the project_status default.
createProject_no_status_default(c, a) ==
  LET o1 == OrElse(a, Obj(EmptyObj))
      o2 == Default(o1, "project_name", Str(""))
      o4 == NotNot(o2, "include_jquery")
      o5 == Default(o4, "ip_filter", Str(""))
      postUrl == c.baseUrl \o "projects/"
  IN  restAsync(c, "post", postUrl, ReqOptionsData(c, "post", JSONstringify(o5)), o5)

createProject(c, a) ==
  LET o1 == OrElse(a, Obj(EmptyObj))
      o2 == Default(o1, "project_name", Str(""))
      o3 == Default(o2, "project_status", Str("Active"))
      o4 == NotNot(o3, "include_jquery")
      o5 == Default(o4, "ip_filter", Str(""))
      postUrl == c.baseUrl \o "projects/"
  IN  restAsync(c, "post", postUrl, ReqOptionsData(c, "post", JSONstringify(o5)), o5)

getProject_rebases(c, a) ==
  LET o2 == OrElse(Wrap(a, "id", {"string", "number"}), Obj(EmptyObj))
      o3 == DefaultString(o2, "id")
      theUrl == c.baseUrl \o "projects/" \o Get(o3, "id").s
  IN  IF ~Truthy(Get(o3, "id"))
        THEN Threw(c, "Error", "required: options.id", o3)
        ELSE restAsync([c EXCEPT !.baseUrl = theUrl], "get", theUrl, ReqOptions(c, "get"), o3)

getProject(c, a) ==
  LET o2 == OrElse(Wrap(a, "id", {"string", "number"}), Obj(EmptyObj))
      o3 == DefaultString(o2, "id")
      theUrl == c.baseUrl \o "projects/" \o Get(o3, "id").s
  IN  IF ~Truthy(Get(o3, "id"))
        THEN Threw(c, "Error", "required: options.id", o3)
        ELSE restAsync(c, "get", theUrl, ReqOptions(c, "get"), o3)

updateProject(c, a) ==
  LET o1 == OrElse(a, Obj(EmptyObj))
      o2 == Default(o1, "id", Bool(FALSE))
      putUrl == c.baseUrl \o "projects/" \o Get(o2, "id").s
  IN  IF ~Truthy(Get(o2, "id"))
        THEN Threw(c, "Error", "required: options.id", o2)
        ELSE restAsync(c, "put", putUrl, ReqOptionsData(c, "put", JSONstringify(o2)), o2)

getProjects(c, a) ==
  restAsync(c, "get", c.baseUrl \o "projects/", ReqOptions(c, "get"), a)

---------------------------------------------------------------------------
(* 2. Experiments                                                          *)

createExperiment_keeps_project_id(c, a) ==
  LET o1 == OrElse(a, Obj(EmptyObj))
      o2 == Default(o1, "description", Str(""))
      o3 == Default(o2, "project_id", Str(""))
      o4 == Default(o3, "edit_url", Str(""))
      o5 == Default(o4, "custom_css", Str(""))
      o6 == Default(o5, "custom_js", Str(""))
      postUrl == c.baseUrl \o "projects/" \o Get(o6, "project_id").s \o "/experiments/"
  IN  IF ~Truthy(Get(o6, "edit_url"))
        THEN Threw(c, "Error", "Required: options.edit_url", o6)
      ELSE IF ~Truthy(Get(o6, "project_id"))
        THEN Threw(c, "Error", "Required: options.project_id", o6)
      ELSE restAsync(c, "post", postUrl, ReqOptionsData(c, "post", JSONstringify(o6)), o6)

createExperiment(c, a) ==
  LET o1 == OrElse(a, Obj(EmptyObj))
      o2 == Default(o1, "description", Str(""))
      o3 == Default(o2, "project_id", Str(""))
      o4 == Default(o3, "edit_url", Str(""))
      o5 == Default(o4, "custom_css", Str(""))
      o6 == Default(o5, "custom_js", Str(""))
      postUrl == c.baseUrl \o "projects/" \o Get(o6, "project_id").s \o "/experiments/"
      o7 == Delete(o6, "project_id")
  IN  IF ~Truthy(Get(o6, "edit_url"))
        THEN Threw(c, "Error", "Required: options.edit_url", o6)
      ELSE IF ~Truthy(Get(o6, "project_id"))
        THEN Threw(c, "Error", "Required: options.project_id", o6)
      ELSE restAsync(c, "post", postUrl, ReqOptionsData(c, "post", JSONstringify(o7)), o7)

getExperiment(c, a) ==
  LET o2 == OrElse(Wrap(a, "id", {"string", "number"}), Obj(EmptyObj))
      o3 == DefaultString(o2, "id")
      theUrl == c.baseUrl \o "experiments/" \o Get(o3, "id").s
  IN  IF ~Truthy(Get(o3, "id"))
        THEN Threw(c, "Error", "required: options.id", o3)
        ELSE restAsync(c, "get", theUrl, ReqOptions(c, "get"), o3)

updateExperiment(c, a) ==
  LET o1 == OrElse(a, Obj(EmptyObj))
      o2 == DefaultString(o1, "id")
      o3 == Default(o2, "description", Str(""))
      o4 == Default(o3, "edit_url", Str(""))
      o5 == Default(o4, "custom_css", Str(""))
      o6 == Default(o5, "custom_js", Str(""))
      theUrl == c.baseUrl \o "experiments/" \o Get(o6, "id").s
      o7 == Delete(o6, "id")
  IN  IF ~Truthy(Get(o6, "id"))
        THEN Threw(c, "Error", "required: options.id", o6)
        ELSE restAsync(c, "put", theUrl, ReqOptionsData(c, "put", JSONstringify(o7)), o7)

pushExperiment_always_updates(c, a) ==
  LET o1 == OrElse(a, Obj(EmptyObj))
      o2 == Default(o1, "id", Str(""))
  IN  updateExperiment(c, o2)

pushExperiment(c, a) ==
  LET o1 == OrElse(a, Obj(EmptyObj))
      o2 == Default(o1, "id", Str(""))
  IN  IF Truthy(Get(o2, "id"))
        THEN updateExperiment(c, o2)
        ELSE createExperiment(c, o2)

getExperiments(c, a) ==
  LET o2 == OrElse(Wrap(a, "project_id", {"string", "number"}), Obj(EmptyObj))
      o3 == DefaultString(o2, "project_id")
      theUrl == c.baseUrl \o "projects/" \o Get(o3, "project_id").s \o "/experiments/"
  IN  IF ~Truthy(Get(o3, "project_id"))
        THEN Threw(c, "Error", "required: options.project_id", o3)
        ELSE restAsync(c, "get", theUrl, ReqOptions(c, "get"), o3)

getExperimentByDescription_lists_twice(c, a, b) ==
  LET o1 == Wrap(a, "project_id", {"string"})
      o2 == OrElse(o1, Obj(EmptyObj))
      o3 == DefaultString(o2, "project_id")
      o4 == Default(o3, "description", b)
      listed == getExperiments(c, Get(o4, "project_id"))
  IN  IF ~Truthy(Get(o4, "project_id"))
        THEN Threw(c, "Error", "Required: options.project_id", o4)
      ELSE IF ~Truthy(Get(o4, "description"))
        THEN Threw(c, "Error", "Required: options.description", o4)
      ELSE [listed EXCEPT !.opts = o4, !.reqs = listed.reqs \o listed.reqs]

\* The synchronous part: validation and the delegated getExperiments call.
\* `b` is arguments[1].
getExperimentByDescription(c, a, b) ==
  LET o1 == Wrap(a, "project_id", {"string"})
      o2 == OrElse(o1, Obj(EmptyObj))
      o3 == DefaultString(o2, "project_id")
      o4 == Default(o3, "description", b)
      listed == getExperiments(c, Get(o4, "project_id"))
  IN  IF ~Truthy(Get(o4, "project_id"))
        THEN Threw(c, "Error", "Required: options.project_id", o4)
      ELSE IF ~Truthy(Get(o4, "description"))
        THEN Threw(c, "Error", "Required: options.description", o4)
      ELSE [listed EXCEPT !.opts = o4]

deleteExperiment(c, a) ==
  LET o2 == OrElse(Wrap(a, "id", {"string", "number"}), Obj(EmptyObj))
      o3 == DefaultString(o2, "id")
      theUrl == c.baseUrl \o "experiments/" \o Get(o3, "id").s
  IN  IF ~Truthy(Get(o3, "id"))
        THEN Threw(c, "Error", "required: options.id", o3)
        ELSE restAsync(c, "del", theUrl, ReqOptions(c, "delete"), o3)

DimensionQuery_unencoded(dimension) ==
  "?" \o "dimension_id=" \o Get(dimension, "id").s
      \o "&dimension_value=" \o Get(dimension, "value").s

\* The query string getResults and getStats append for options.dimension.
DimensionQuery(dimension) ==
  "?" \o "dimension_id=" \o encodeURIComponent(Get(dimension, "id"))
      \o "&dimension_value=" \o encodeURIComponent(Get(dimension, "value"))

getResults(c, a) ==
  LET o2 == OrElse(Wrap(a, "id", {"string", "number"}), Obj(EmptyObj))
      o3 == DefaultString(o2, "id")
      theUrl == c.baseUrl \o "experiments/" \o Get(o3, "id").s \o "/results"
      dimension == Get(o3, "dimension")
  IN  IF ~Truthy(Get(o3, "id"))
        THEN Threw(c, "Error", "required: options.id", o3)
      ELSE IF ~Truthy(dimension)
        THEN restAsync(c, "get", theUrl, ReqOptions(c, "GET"), o3)
      ELSE IF ~Truthy(Get(dimension, "id"))
        THEN Threw(c, "Error", "required: options.dimension.id", o3)
      ELSE IF ~Truthy(Get(dimension, "value"))
        THEN Threw(c, "Error", "required: options.dimension.value", o3)
      ELSE restAsync(c, "get", theUrl \o DimensionQuery(dimension), ReqOptions(c, "GET"), o3)

getStats(c, a) ==
  LET o2 == OrElse(Wrap(a, "id", {"string", "number"}), Obj(EmptyObj))
      o3 == DefaultString(o2, "id")
      theUrl == c.baseUrl \o "experiments/" \o Get(o3, "id").s \o "/stats"
      dimension == Get(o3, "dimension")
  IN  IF ~Truthy(Get(o3, "id"))
        THEN Threw(c, "Error", "required: options.id", o3)
      ELSE IF ~Truthy(dimension)
        THEN restAsync(c, "get", theUrl, ReqOptions(c, "GET"), o3)
      ELSE IF ~Truthy(Get(dimension, "id"))
        THEN Threw(c, "Error", "required: options.dimension.id", o3)
      ELSE IF ~Truthy(Get(dimension, "value"))
        THEN Threw(c, "Error", "required: options.dimension.value", o3)
      ELSE restAsync(c, "get", theUrl \o DimensionQuery(dimension), ReqOptions(c, "GET"), o3)

---------------------------------------------------------------------------
(* 3. Variations                                                           *)

createVariation(c, a) ==
  LET o1 == OrElse(a, Obj(EmptyObj))
      o2 == DefaultString(o1, "experiment_id")
      o3 == Default(o2, "description", Str(""))
      postUrl == c.baseUrl \o "experiments/" \o Get(o3, "experiment_id").s \o "/variations/"
      o4 == Delete(o3, "experiment_id")
  IN  IF ~Truthy(Get(o3, "experiment_id"))
        THEN Threw(c, "Error", "Required: options.experiment_id", o3)
        ELSE restAsync(c, "post", postUrl, ReqOptionsData(c, "post", JSONstringify(o4)), o4)

getVariation(c, a) ==
  LET o1 == Wrap(a, "id", {"string"})
      theUrl == c.baseUrl \o "variations/" \o Get(o1, "id").s
  IN  IF ~CanRead(o1)
        THEN Threw(c, "TypeError", "Cannot read property 'id' of " \o o1.s, o1)
      ELSE IF ~Truthy(Get(o1, "id"))
        THEN Threw(c, "Error", "Required: options.id", o1)
      ELSE restAsync(c, "get", theUrl, ReqOptions(c, "get"), o1)

updateVariation(c, a) ==
  LET o1 == OrElse(a, Obj(EmptyObj))
      u1 == Put(Obj(EmptyObj), "id", OrElse(Get(o1, "id"), Str("")))
      u2 == Put(u1, "description", OrElse(Get(o1, "description"), Str("")))
      u3 == Put(u2, "js_component", OrElse(Get(o1, "js_component"), Str("")))
      theUrl == c.baseUrl \o "variations/" \o Get(o1, "id").s
  IN  IF ~Truthy(Get(o1, "id"))
        THEN Threw(c, "Error", "Required: options.id", o1)
        ELSE restAsync(c, "put", theUrl, ReqOptionsData(c, "put", JSONstringify(u3)), o1)

pushVariation(c, a) ==
  LET o1 == OrElse(a, Obj(EmptyObj))
      o2 == Default(o1, "id", Str(""))
  IN  IF Truthy(Get(o2, "id"))
        THEN updateVariation(c, o2)
        ELSE createVariation(c, o2)

deleteVariation(c, a) ==
  LET o1 == Wrap(a, "id", {"string"})
      theUrl == c.baseUrl \o "variations/" \o Get(o1, "id").s
  IN  IF ~CanRead(o1)
        THEN Threw(c, "TypeError", "Cannot read property 'id' of " \o o1.s, o1)
      ELSE IF ~Truthy(Get(o1, "id"))
        THEN Threw(c, "Error", "Required: options.id", o1)
      ELSE restAsync(c, "del", theUrl, ReqOptions(c, "delete"), o1)

---------------------------------------------------------------------------
(* 4. Audiences                                                            *)

getAudience(c, a) ==
  LET o1 == Wrap(a, "id", {"string"})
      theUrl == c.baseUrl \o "audiences/" \o Get(o1, "id").s
  IN  IF ~CanRead(o1)
        THEN Threw(c, "TypeError", "Cannot read property 'id' of " \o o1.s, o1)
      ELSE IF ~Truthy(Get(o1, "id"))
        THEN Threw(c, "Error", "Required: options.id", o1)
      ELSE restAsync(c, "get", theUrl, ReqOptions(c, "get"), o1)

createAudience_skips_id_check(c, a) ==
  LET o1 == OrElse(a, Obj(EmptyObj))
      s1 == Put(Obj(EmptyObj), "name", Get(o1, "name"))
      s2 == Put(s1, "id", Get(o1, "id"))
      s3 == Put(s2, "description", OrElse(Get(o1, "description"), Str("")))
      s4 == Put(s3, "segmentation", OrElse(Get(o1, "segmentation"), Bool(FALSE)))
      s5 == Put(s4, "conditions", OrElse(Get(o1, "conditions"), Arr(<<>>)))
      postUrl == c.baseUrl \o "projects/" \o Get(o1, "id").s \o "/audiences/"
  IN  IF ~Truthy(Get(o1, "name"))
        THEN Threw(c, "Error", "Required: options.name", o1)
      ELSE restAsync(c, "post", postUrl, ReqOptionsData(c, "post", JSONstringify(s5)), o1)

createAudience(c, a) ==
  LET o1 == OrElse(a, Obj(EmptyObj))
      s1 == Put(Obj(EmptyObj), "name", Get(o1, "name"))
      s2 == Put(s1, "id", Get(o1, "id"))
      s3 == Put(s2, "description", OrElse(Get(o1, "description"), Str("")))
      s4 == Put(s3, "segmentation", OrElse(Get(o1, "segmentation"), Bool(FALSE)))
      s5 == Put(s4, "conditions", OrElse(Get(o1, "conditions"), Arr(<<>>)))
      postUrl == c.baseUrl \o "projects/" \o Get(o1, "id").s \o "/audiences/"
  IN  IF ~Truthy(Get(o1, "name"))
        THEN Threw(c, "Error", "Required: options.name", o1)
      ELSE IF ~Truthy(Get(o1, "id"))
        THEN Threw(c, "Error", "Required: options.id", o1)
      ELSE restAsync(c, "post", postUrl, ReqOptionsData(c, "post", JSONstringify(s5)), o1)

updateAudience(c, a) ==
  LET o1 == OrElse(a, Obj(EmptyObj))
      o2 == Default(o1, "id", Bool(FALSE))
      putUrl == c.baseUrl \o "audiences/" \o Get(o2, "id").s
  IN  IF ~Truthy(Get(o2, "id"))
        THEN Threw(c, "Error", "required: options.id", o2)
        ELSE restAsync(c, "put", putUrl, ReqOptionsData(c, "put", JSONstringify(o2)), o2)

getAudiences(c, a) ==
  LET o2 == OrElse(Wrap(a, "id", {"string", "number"}), Obj(EmptyObj))
      o3 == Default(o2, "id", Str(""))
      theUrl == c.baseUrl \o "projects/" \o Get(o3, "id").s \o "/audiences/"
  IN  IF ~Truthy(Get(o3, "id"))
        THEN Threw(c, "Error", "required: options.id", o3)
        ELSE restAsync(c, "get", theUrl, ReqOptions(c, "get"), o3)

---------------------------------------------------------------------------
(* 5. Dimensions                                                           *)

getDimension(c, a) ==
  LET o1 == Wrap(a, "id", {"string"})
      theUrl == c.baseUrl \o "dimensions/" \o Get(o1, "id").s
  IN  IF ~CanRead(o1)
        THEN Threw(c, "TypeError", "Cannot read property 'id' of " \o o1.s, o1)
      ELSE IF ~Truthy(Get(o1, "id"))
        THEN Threw(c, "Error", "Required: options.id", o1)
      ELSE restAsync(c, "get", theUrl, ReqOptions(c, "get"), o1)

createDimension(c, a) ==
  LET o1 == OrElse(a, Obj(EmptyObj))
      s1 == Put(Obj(EmptyObj), "name", Get(o1, "name"))
      s2 == Put(s1, "id", Get(o1, "id"))
      s3 == Put(s2, "description", OrElse(Get(o1, "description"), Str("")))
      s4 == Put(s3, "client_api_name", OrElse(Get(o1, "client_api_name"), Str("")))
      postUrl == c.baseUrl \o "projects/" \o Get(o1, "id").s \o "/dimensions/"
  IN  IF ~Truthy(Get(o1, "name"))
        THEN Threw(c, "Error", "Required: options.name", o1)
      ELSE IF ~Truthy(Get(o1, "id"))
        THEN Threw(c, "Error", "Required: options.id", o1)
      ELSE restAsync(c, "post", postUrl, ReqOptionsData(c, "post", JSONstringify(s4)), o1)

updateDimension(c, a) ==
  LET o1 == OrElse(a, Obj(EmptyObj))
      o2 == Default(o1, "id", Bool(FALSE))
      putUrl == c.baseUrl \o "dimensions/" \o Get(o2, "id").s
  IN  IF ~Truthy(Get(o2, "id"))
        THEN Threw(c, "Error", "required: options.id", o2)
        ELSE restAsync(c, "put", putUrl, ReqOptionsData(c, "put", JSONstringify(o2)), o2)

getDimensions(c, a) ==
  LET o2 == OrElse(Wrap(a, "id", {"string", "number"}), Obj(EmptyObj))
      o3 == Default(o2, "id", Str(""))
      theUrl == c.baseUrl \o "projects/" \o Get(o3, "id").s \o "/dimensions/"
  IN  IF ~Truthy(Get(o3, "id"))
        THEN Threw(c, "Error", "required: options.id", o3)
        ELSE restAsync(c, "get", theUrl, ReqOptions(c, "get"), o3)

---------------------------------------------------------------------------
(* 6. Goals                                                                *)

getGoals(c, a) ==
  LET o2 == OrElse(Wrap(a, "id", {"string", "number"}), Obj(EmptyObj))
      o3 == Default(o2, "id", Str(""))
      theUrl == c.baseUrl \o "projects/" \o Get(o3, "id").s \o "/goals/"
  IN  IF ~Truthy(Get(o3, "id"))
        THEN Threw(c, "Error", "required: options.id", o3)
        ELSE restAsync(c, "get", theUrl, ReqOptions(c, "get"), o3)

---------------------------------------------------------------------------
(* The request adapter: EventEmitterPromisifier.                           *)

NoPromise == [state |-> "none", value |-> Undef]
Pending == [state |-> "pending", value |-> Undef]

\* resolve and reject of `new Promise`: only a pending promise is settled.
resolve(p, v) ==
  IF p.state = "pending" THEN [state |-> "fulfilled", value |-> v] ELSE p

reject_overwrites(p, v) == [state |-> "rejected", value |-> v]

reject(p, v) ==
  IF p.state = "pending" THEN [state |-> "rejected", value |-> v] ELSE p

CancellationError == Err("CancellationError", "cancellation error")
TimeoutError == Err("TimeoutError", "timeout error")

Events == {"success", "fail", "error", "abort", "timeout"}

on_abort_as_timeout(st, event, arg) ==
  CASE event = "success" -> [st EXCEPT !.promise = resolve(st.promise, arg)]
    [] event \in {"fail", "error"} -> [st EXCEPT !.promise = reject(st.promise, arg)]
    [] event \in {"abort", "timeout"} -> [st EXCEPT !.promise = reject(st.promise, TimeoutError)]
    [] OTHER -> st

\* The five listeners registered on the emitter.  `st` is the call's state:
\* how often originalMethod was applied, and the promise.
on(st, event, arg) ==
  CASE event = "success" -> [st EXCEPT !.promise = resolve(st.promise, arg)]
    [] event = "fail" -> [st EXCEPT !.promise = reject(st.promise, arg)]
    [] event = "error" -> [st EXCEPT !.promise = reject(st.promise, arg)]
    [] event = "abort" -> [st EXCEPT !.promise = reject(st.promise, CancellationError)]
    [] event = "timeout" -> [st EXCEPT !.promise = reject(st.promise, TimeoutError)]
    [] OTHER -> st

\* promisified(): the executor applies originalMethod once; if that throws,
\* the promise is rejected with the thrown error and no emitter exists.
promisified(thrown) ==
  [invoked |-> 1,
   promise |-> IF thrown = Undef THEN Pending ELSE reject(Pending, thrown)]

---------------------------------------------------------------------------
(* The values callers pass.                                                *)

IdParts ==
  {EmptyObj, [id |-> Str("")], [id |-> Str("42")], [id |-> Num("5")]}

ExperimentParts ==
  {EmptyObj,
   [edit_url |-> Str("u")],
   [project_id |-> Str("1")],
   [edit_url |-> Str("u"), project_id |-> Str("1")],
   [edit_url |-> Str(""), project_id |-> Num("5")]}

VariationParts ==
  {[experiment_id |-> Str("7")],
   [experiment_id |-> Num("7"), description |-> Str("d"), weight |-> Num("5")],
   [description |-> Str("d"), js_component |-> Str("js"), weight |-> Num("5")]}

NameParts ==
  {[name |-> Str("n")],
   [name |-> Str(""), description |-> Str("d")],
   [name |-> Str("n"), description |-> Str("d"), client_api_name |-> Str("api")]}

Dimensions ==
  {EmptyObj,
   [id |-> Str("d1")],
   [value |-> Str("v1")],
   [id |-> Str("d1"), value |-> Str("v1")],
   [id |-> Str("a b"), value |-> Str("x&y=1")],
   [id |-> Num("5"), value |-> Str("a/b?")],
   [id |-> Num("0"), value |-> Str("v1")]}

DimensionParts == {[dimension |-> Obj(d)] : d \in Dimensions}

ProjectParts ==
  {[project_name |-> Str("p")],
   [project_name |-> Str("p"), project_status |-> Str("Archived"),
    ip_filter |-> Str("1.2.3.4"), include_jquery |-> Bool(TRUE)],
   [project_id |-> Str("1"), description |-> Str("B")]}

Primitives == {Undef, Null, Str(""), Str("5"), Num("5"), Num("0")}

Inputs ==
  Primitives
    \cup {Obj(i) : i \in IdParts}
    \cup {Obj(i @@ e) : i \in {EmptyObj, [id |-> Str("42")]}, e \in ExperimentParts}
    \cup {Obj(i @@ e) : i \in {EmptyObj, [id |-> Str("42")]}, e \in VariationParts}
    \cup {Obj(i @@ e) : i \in {EmptyObj, [id |-> Str("42")]}, e \in NameParts}
    \cup {Obj([id |-> Str("7")] @@ e) : e \in DimensionParts}
    \cup {Obj([dimension |-> Obj([id |-> Str("d1"), value |-> Str("v1")])])}
    \cup {Obj(p) : p \in ProjectParts}

SecondArgs == {Undef, Str("B")}

CtorArgs ==
  {<<Str("tok"), Undef, Undef>>,
   <<Str("tok"), Null, Bool(TRUE)>>,
   <<Num("5"), Obj([url |-> Str("http://h/"), OAuth2 |-> Bool(TRUE)]), Undef>>,
   <<Str(""), Undef, Undef>>}

Clients ==
  {Construct(x[1], x[2], x[3]).self :
     x \in {y \in CtorArgs : Construct(y[1], y[2], y[3]).err = "none"}}

---------------------------------------------------------------------------
(* The client: calls made one after another on one instance.               *)

NoCall == [op |-> "none", a |-> Undef, b |-> Undef, err |-> "none", msg |-> "", reqs |-> <<>>]

NoFind ==
  [pc |-> "off", b |-> Undef, data |-> Undef, options |-> Undef, out |-> NoPromise]

Init ==
  /\ client \in Clients
  /\ o \in Inputs
  /\ last = NoCall
  /\ promise = NoPromise
  /\ emitter = FALSE
  /\ invoked = 0
  /\ log = <<>>
  /\ settles = 0
  /\ find = NoFind

\* A method of the client is called with `o` (and `b`) and returns or throws
\* with outcome r; every rest.<name>Async call it made ran promisified().
DoCall(name, b, r) ==
  /\ last' = [op |-> name, a |-> o, b |-> b, err |-> r.err, msg |-> r.msg, reqs |-> r.reqs]
  /\ o' = IF o.t = "object" THEN r.opts ELSE o
  /\ promise' = IF r.reqs = <<>> THEN NoPromise ELSE promisified(Undef).promise
  /\ emitter' = (r.reqs # <<>>)
  /\ invoked' = Len(r.reqs) * promisified(Undef).invoked
  /\ client' = r.self
  /\ UNCHANGED <<log, settles>>

Do(name, b, r) == DoCall(name, b, r) /\ UNCHANGED find

CallCreateProject == Do("createProject", Undef, createProject(client, o))
CallGetProject == Do("getProject", Undef, getProject(client, o))
CallUpdateProject == Do("updateProject", Undef, updateProject(client, o))
CallGetProjects == Do("getProjects", Undef, getProjects(client, o))
CallCreateExperiment == Do("createExperiment", Undef, createExperiment(client, o))
CallGetExperiment == Do("getExperiment", Undef, getExperiment(client, o))
CallUpdateExperiment == Do("updateExperiment", Undef, updateExperiment(client, o))
CallPushExperiment == Do("pushExperiment", Undef, pushExperiment(client, o))
CallGetExperiments == Do("getExperiments", Undef, getExperiments(client, o))
CallGetExperimentByDescription ==
  \E b \in SecondArgs :
    Do("getExperimentByDescription", b, getExperimentByDescription(client, o, b))
CallDeleteExperiment == Do("deleteExperiment", Undef, deleteExperiment(client, o))
CallGetResults == Do("getResults", Undef, getResults(client, o))
CallGetStats == Do("getStats", Undef, getStats(client, o))
CallCreateVariation == Do("createVariation", Undef, createVariation(client, o))
CallGetVariation == Do("getVariation", Undef, getVariation(client, o))
CallUpdateVariation == Do("updateVariation", Undef, updateVariation(client, o))
CallPushVariation == Do("pushVariation", Undef, pushVariation(client, o))
CallDeleteVariation == Do("deleteVariation", Undef, deleteVariation(client, o))
CallGetAudience == Do("getAudience", Undef, getAudience(client, o))
CallCreateAudience == Do("createAudience", Undef, createAudience(client, o))
CallUpdateAudience == Do("updateAudience", Undef, updateAudience(client, o))
CallGetAudiences == Do("getAudiences", Undef, getAudiences(client, o))
CallGetDimension == Do("getDimension", Undef, getDimension(client, o))
CallCreateDimension == Do("createDimension", Undef, createDimension(client, o))
CallUpdateDimension == Do("updateDimension", Undef, updateDimension(client, o))
CallGetDimensions == Do("getDimensions", Undef, getDimensions(client, o))
CallGetGoals == Do("getGoals", Undef, getGoals(client, o))

Next ==
  \/ CallCreateProject
  \/ CallGetProject
  \/ CallUpdateProject
  \/ CallGetProjects
  \/ CallCreateExperiment
  \/ CallGetExperiment
  \/ CallUpdateExperiment
  \/ CallPushExperiment
  \/ CallGetExperiments
  \/ CallGetExperimentByDescription
  \/ CallDeleteExperiment
  \/ CallGetResults
  \/ CallGetStats
  \/ CallCreateVariation
  \/ CallGetVariation
  \/ CallUpdateVariation
  \/ CallPushVariation
  \/ CallDeleteVariation
  \/ CallGetAudience
  \/ CallCreateAudience
  \/ CallUpdateAudience
  \/ CallGetAudiences
  \/ CallGetDimension
  \/ CallCreateDimension
  \/ CallUpdateDimension
  \/ CallGetDimensions
  \/ CallGetGoals

Spec == Init /\ [][Next]_vars

---------------------------------------------------------------------------
(* The adapter alone: one promisified call and the events of its emitter.  *)

MaxEvents == 3

\* What restler passes to the listeners of each event.
Payloads(event) ==
  CASE event = "success" -> {Str("body"), JsonText(Arr(<<>>))}
    [] event = "fail" -> {Str("404"), Obj([status |-> Num("5")])}
    [] event = "error" -> {Err("Error", "ECONNRESET")}
    [] OTHER -> {Undef}

\* What originalMethod may throw; Undef when it returns the emitter.
Thrown == {Undef, Err("TypeError", "bad url")}

AdapterInit ==
  /\ client \in Clients
  /\ o = Undef
  /\ \E name \in methodNamesToPromisify :
       last = [NoCall EXCEPT !.op = name,
                 !.reqs = restAsync(client, name, client.baseUrl, ReqOptions(client, name), Undef).reqs]
  /\ promise = NoPromise
  /\ emitter = FALSE
  /\ invoked = 0
  /\ log = <<>>
  /\ settles = 0
  /\ find = NoFind

\* promisified() runs: the executor applies originalMethod.
Apply ==
  /\ promise = NoPromise
  /\ \E thrown \in Thrown :
       LET st == promisified(thrown)
       IN  /\ promise' = st.promise
           /\ invoked' = invoked + st.invoked
           /\ emitter' = (thrown = Undef)
           /\ settles' = IF st.promise.state = "pending" THEN 0 ELSE 1
  /\ UNCHANGED <<client, o, last, log, find>>

\* The emitter fires an event and the listener registered for it runs.
Fire ==
  /\ emitter
  /\ Len(log) < MaxEvents
  /\ \E e \in Events : \E arg \in Payloads(e) :
       LET st == on([invoked |-> invoked, promise |-> promise], e, arg)
       IN  /\ promise' = st.promise
           /\ invoked' = st.invoked
           /\ settles' = settles + (IF st.promise # promise THEN 1 ELSE 0)
           /\ log' = Append(log, [event |-> e, arg |-> arg])
  /\ UNCHANGED <<client, o, last, emitter, find>>

AdapterNext == Apply \/ Fire

SpecAdapter == AdapterInit /\ [][AdapterNext]_vars

---------------------------------------------------------------------------
(* getExperimentByDescription from the call to the derived promise.        *)

MaxList == 3

\* x === y for the primitive values compared here; two distinct objects
\* are never strictly equal.
StrictEquals(x, y) == x.t \notin {"object", "array", "error"} /\ x = y

\* JSON.parse(text)
JSONparse(text) ==
  IF IsJsonText(text)
    THEN [err |-> "none", value |-> text.json]
    ELSE [err |-> "SyntaxError", value |-> Undef]

RECURSIVE Scan_last_match(_, _, _)
Scan_last_match(data, i, description) ==
  IF i > Len(data.a)
    THEN [err |-> "none", value |-> Null]
  ELSE IF ~CanRead(data.a[i])
    THEN [err |-> "TypeError", value |-> Undef]
  ELSE LET rest == Scan_last_match(data, i + 1, description)
       IN  IF rest.err # "none" \/ rest.value # Null THEN rest
           ELSE IF StrictEquals(Get(data.a[i], "description"), description)
             THEN [err |-> "none", value |-> data.a[i]]
           ELSE rest

\* for (var i in data) from index i on: the first entry whose description
\* is strictly equal to the one asked for, else null.
RECURSIVE Scan(_, _, _)
Scan(data, i, description) ==
  IF i > Len(data.a)
    THEN [err |-> "none", value |-> Null]
  ELSE IF ~CanRead(data.a[i])
    THEN [err |-> "TypeError", value |-> Undef]
  ELSE IF StrictEquals(Get(data.a[i], "description"), description)
    THEN [err |-> "none", value |-> data.a[i]]
  ELSE Scan(data, i + 1, description)

\* The function passed to then(): what it returns or throws for `data`.
ByDescription(data, options) ==
  LET parsed == IF typeof(data) = "string" THEN JSONparse(data)
                ELSE [err |-> "none", value |-> data]
  IN  IF parsed.err # "none" THEN parsed
      ELSE IF parsed.value.t = "array"
        THEN Scan(parsed.value, 1, Get(options, "description"))
      ELSE [err |-> "none", value |-> Null]

\* p.then(f): the promise derived from the settled promise p.
then(p, options) ==
  IF p.state = "fulfilled"
    THEN LET ret == ByDescription(p.value, options)
         IN  IF ret.err = "none" THEN resolve(Pending, ret.value)
             ELSE reject(Pending, Err(ret.err, "thrown in then"))
    ELSE p

Entries ==
  {Obj([id |-> Str("e1"), description |-> Str("A")]),
   Obj([id |-> Str("e1"), description |-> Str("B")]),
   Obj([id |-> Str("e2"), description |-> Str("B")]),
   Obj([id |-> Str("e3"), description |-> Str("b")]),
   Obj([id |-> Str("e4")])}

Lists == UNION {[1..n -> Entries] : n \in 0..MaxList}

ServerData ==
  {Arr(l) : l \in Lists} \cup {JSONstringify(Arr(l)) : l \in Lists} \cup {Str("<html>")}

FindInputs ==
  {Undef, Str("1"), Num("5"), Obj([project_id |-> Str("1")]),
   Obj([project_id |-> Num("5"), description |-> Str("B")])}

FindSecondArgs == {Undef, Str("B"), Str("Z")}

FindInit ==
  /\ client \in Clients
  /\ o \in FindInputs
  /\ last = NoCall
  /\ promise = NoPromise
  /\ emitter = FALSE
  /\ invoked = 0
  /\ log = <<>>
  /\ settles = 0
  /\ \E b \in FindSecondArgs : \E data \in ServerData :
       find = [NoFind EXCEPT !.pc = "start", !.b = b, !.data = data]

\* The caller calls getExperimentByDescription(o, b).
FindCall ==
  /\ find.pc = "start"
  /\ LET r == getExperimentByDescription(client, o, find.b)
     IN  /\ DoCall("getExperimentByDescription", find.b, r)
         /\ find' = [find EXCEPT !.pc = IF r.err = "none" THEN "called" ELSE "threw",
                                 !.options = r.opts]

\* The transport answers the list request: success carries the list.
FindEvent ==
  /\ find.pc = "called"
  /\ emitter
  /\ \E e \in Events :
       \E arg \in (IF e = "success" THEN {find.data} ELSE Payloads(e)) :
         LET st == on([invoked |-> invoked, promise |-> promise], e, arg)
         IN  /\ promise' = st.promise
             /\ invoked' = st.invoked
  /\ UNCHANGED <<client, o, last, emitter, log, settles, find>>

\* The promise of the list request is settled and then()'s function runs.
FindThen ==
  /\ find.pc = "called"
  /\ promise.state \in {"fulfilled", "rejected"}
  /\ find' = [find EXCEPT !.pc = "done",
                          !.out = then(promise, find.options)]
  /\ UNCHANGED <<client, o, last, promise, emitter, invoked, log, settles>>

FindNext == FindCall \/ FindEvent \/ FindThen

SpecFind == FindInit /\ [][FindNext]_vars

---------------------------------------------------------------------------
(* Properties of the request adapter (SpecAdapter).                        *)

\* C1: a call through the adapter applies the underlying method exactly
\* once and never again, and its promise is settled at most once: the first
\* event the emitter fires settles it (fulfilled exactly when that event is
\* `success`) and no later event changes the settled promise.
C1_SettledOnce ==
  /\ [](/\ invoked <= 1
        /\ settles <= 1
        /\ (promise # NoPromise => invoked = 1)
        /\ (log # <<>> =>
              /\ settles = 1
              /\ promise.state \in {"fulfilled", "rejected"}
              /\ (promise.state = "fulfilled" <=> log[1].event = "success")))
  /\ [][promise.state \in {"fulfilled", "rejected"} =>
          promise' = promise /\ invoked' = invoked]_vars

\* Several events fired for one call: success first, then a failure.
C1_Witness ==
  /\ Len(log) >= 2
  /\ log[1].event = "success"
  /\ log[2].event \in {"fail", "error", "abort", "timeout"}
  /\ promise.state = "fulfilled"
  /\ invoked = 1

\* C2: the event that settles the call decides the outcome: success fulfils
\* with the event's data, fail and error reject with the event's argument,
\* abort rejects with a CancellationError, timeout with a TimeoutError; a
\* call whose emitter exists is settled by nothing but an event.
C2_EventOutcome ==
  /\ (emitter /\ promise.state # "pending") => log # <<>>
  /\ log # <<>> =>
       promise =
         CASE log[1].event = "success" -> [state |-> "fulfilled", value |-> log[1].arg]
           [] log[1].event = "fail" -> [state |-> "rejected", value |-> log[1].arg]
           [] log[1].event = "error" -> [state |-> "rejected", value |-> log[1].arg]
           [] log[1].event = "abort" -> [state |-> "rejected", value |-> CancellationError]
           [] log[1].event = "timeout" -> [state |-> "rejected", value |-> TimeoutError]

\* An abort settled the call and another event followed it.
C2_Witness ==
  /\ Len(log) >= 2
  /\ log[1].event = "abort"
  /\ log[2].event = "success"
  /\ promise = [state |-> "rejected", value |-> CancellationError]

---------------------------------------------------------------------------
(* Properties of the client's methods (Spec).                              *)

\* The member k of the argument is there and is not empty.
Supplied(a, k) ==
  a.t = "object" /\ k \in DOMAIN a.o /\ a.o[k] \notin {Undef, Null, Str("")}

\* The body of the latest call's request, as the members it serialises.
Body == last.reqs[1].options.data.json.o

ReadDeleteOps ==
  {"getProject", "getExperiment", "deleteExperiment", "getVariation",
   "deleteVariation", "getAudience", "getDimension"}

MissingId(a) ==
  a = Undef \/ a = Str("") \/ (a.t = "object" /\ ~Supplied(a, "id"))

\* C3: a read or delete operation called with no argument, with an empty
\* string, or with an object whose id is absent or empty throws the
\* validation Error and issues no request.
C3_ReadDeleteRejects ==
  (last.op \in ReadDeleteOps /\ MissingId(last.a)) =>
    (last.err = "Error" /\ last.reqs = <<>>)

CreateOps ==
  {"createProject", "createExperiment", "createVariation", "createAudience",
   "createDimension"}

Mandatory(op) ==
  CASE op = "createProject" -> {"project_name"}
    [] op = "createExperiment" -> {"edit_url", "project_id"}
    [] op = "createVariation" -> {"experiment_id"}
    [] op \in {"createAudience", "createDimension"} -> {"name", "id"}
    [] OTHER -> {}

\* C4 as claimed: every creation operation, createProject included, throws
\* the validation Error and issues no request when its name-equivalent or
\* another mandatory field is absent or empty.
C4_Original ==
  (last.op \in CreateOps /\ \E k \in Mandatory(last.op) : ~Supplied(last.a, k)) =>
    (last.err = "Error" /\ last.reqs = <<>>)

\* C4: createExperiment, createVariation, createAudience and createDimension
\* throw the validation Error and issue no request when a mandatory field is
\* absent or empty; createProject has no mandatory field: it never throws and
\* posts project_name "" when the caller's object has none.
C4_CreateRejects ==
  /\ (/\ last.op \in CreateOps \ {"createProject"}
      /\ \E k \in Mandatory(last.op) : ~Supplied(last.a, k))
       => (last.err = "Error" /\ last.reqs = <<>>)
  /\ last.op = "createProject" =>
       /\ last.err = "none"
       /\ Len(last.reqs) = 1
       /\ last.reqs[1].name = "post"
       /\ ((last.a.t = "object" \/ last.a \in {Undef, Null}) /\ ~Supplied(last.a, "project_name"))
            => Body["project_name"] = Str("")

\* createAudience was called with a name and without an id, and threw.
C4_Witness ==
  /\ last.op = "createAudience"
  /\ Supplied(last.a, "name")
  /\ ~Supplied(last.a, "id")
  /\ last.err = "Error"

\* C5 as claimed: the body of a creation request contains every mandatory
\* field the caller supplied, with the caller's value.
C5_Original ==
  (last.op \in CreateOps /\ last.err = "none" /\ last.a.t = "object") =>
    \A k \in Mandatory(last.op) :
      Supplied(last.a, k) => (k \in DOMAIN Body /\ Body[k] = last.a.o[k])

SentInBody(op) ==
  CASE op = "createProject" -> {"project_name"}
    [] op = "createExperiment" -> {"edit_url"}
    [] op \in {"createAudience", "createDimension"} -> {"name", "id"}
    [] OTHER -> {}

\* C5: the body of a creation request contains edit_url (createExperiment),
\* name and id (createAudience, createDimension) and project_name
\* (createProject) with the caller's value; project_id (createExperiment) and
\* experiment_id (createVariation) are removed from the body and appear, in
\* string form, only in the path of the URL.
C5_MandatoryFieldsSent ==
  (last.op \in CreateOps /\ last.err = "none" /\ last.a.t = "object") =>
    /\ \A k \in SentInBody(last.op) :
         Supplied(last.a, k) => (k \in DOMAIN Body /\ Body[k] = last.a.o[k])
    /\ last.op = "createExperiment" =>
         /\ "project_id" \notin DOMAIN Body
         /\ last.reqs[1].url =
              client.baseUrl \o "projects/" \o last.a.o["project_id"].s \o "/experiments/"
    /\ last.op = "createVariation" =>
         /\ "experiment_id" \notin DOMAIN Body
         /\ last.reqs[1].url =
              client.baseUrl \o "experiments/" \o last.a.o["experiment_id"].s \o "/variations/"

\* createExperiment was called with edit_url and project_id "1" and posted.
C5_Witness ==
  /\ last.op = "createExperiment"
  /\ last.err = "none"
  /\ Supplied(last.a, "edit_url")
  /\ last.reqs[1].url = client.baseUrl \o "projects/1/experiments/"

PushOps == {"pushExperiment", "pushVariation"}

NonEmptyId(a) ==
  /\ a.t = "object"
  /\ "id" \in DOMAIN a.o
  /\ a.o["id"].t \in {"string", "number"}
  /\ a.o["id"].s \notin {"", "0"}

\* C6 as claimed: with a non-empty id the upsert issues a PUT to the
\* singular URL, and otherwise (as for pushExperiment({})) it issues a
\* create request.
C6_Original ==
  last.op \in PushOps =>
    /\ last.err = "none"
    /\ Len(last.reqs) = 1
    /\ IF NonEmptyId(last.a)
         THEN /\ last.reqs[1].name = "put"
              /\ last.reqs[1].url =
                   client.baseUrl
                     \o (IF last.op = "pushExperiment" THEN "experiments/" ELSE "variations/")
                     \o last.a.o["id"].s
         ELSE last.reqs[1].name = "post"

\* C6: with a non-empty id the upsert issues one PUT to the singular URL;
\* otherwise it hands the input to the create operation, which issues one
\* POST when create's mandatory fields are supplied and otherwise throws the
\* validation Error without a request (so pushExperiment({}) throws).  No
\* other request is made.
C6_UpsertDispatch ==
  last.op \in PushOps =>
    IF NonEmptyId(last.a)
      THEN /\ last.err = "none"
           /\ Len(last.reqs) = 1
           /\ last.reqs[1].name = "put"
           /\ last.reqs[1].url =
                client.baseUrl
                  \o (IF last.op = "pushExperiment" THEN "experiments/" ELSE "variations/")
                  \o last.a.o["id"].s
      ELSE IF \A k \in (IF last.op = "pushExperiment" THEN {"edit_url", "project_id"}
                        ELSE {"experiment_id"}) : Supplied(last.a, k)
        THEN /\ last.err = "none"
             /\ Len(last.reqs) = 1
             /\ last.reqs[1].name = "post"
        ELSE /\ last.err = "Error"
             /\ last.reqs = <<>>

\* pushExperiment was called with id "42" and issued the update.
C6_Witness ==
  /\ last.op = "pushExperiment"
  /\ NonEmptyId(last.a)
  /\ last.reqs # <<>>
  /\ last.reqs[1].name = "put"
  /\ last.reqs[1].url = client.baseUrl \o "experiments/42"

\* C7: a call that returns has handed exactly one request to restler, whose
\* underlying method was applied once; a call that throws has handed none.
\* This holds for the composite operations as for the others.
C7_OneRequest ==
  last.op # "none" =>
    IF last.err = "none"
      THEN Len(last.reqs) = 1 /\ invoked = 1 /\ promise = Pending
      ELSE last.reqs = <<>> /\ invoked = 0 /\ promise = NoPromise

\* getExperimentByDescription passed validation and listed the experiments.
C7_Witness ==
  /\ last.op = "getExperimentByDescription"
  /\ last.err = "none"
  /\ Len(last.reqs) = 1
  /\ last.reqs[1].name = "get"

\* C8: no call changes the client (apiToken, baseUrl, baseHeaders), whether
\* it returns or throws; getProject("5") called again after getProject("5")
\* issues one GET to the same URL with the same headers.
C8_ClientReadOnly ==
  [][/\ client' = client
     /\ (/\ last.op = "getProject" /\ last.a = Str("5")
         /\ last'.op = "getProject" /\ last'.a = Str("5"))
          => /\ Len(last'.reqs) = 1
             /\ last'.reqs = last.reqs
             /\ last'.reqs[1].name = "get"
             /\ last'.reqs[1].url = client.baseUrl \o "projects/5"
             /\ last'.reqs[1].options.headers = client.baseHeaders]_vars

\* getProject("5") has been called on a constructed client.
C8_Witness ==
  /\ last.op = "getProject"
  /\ last.a = Str("5")
  /\ Len(last.reqs) = 1
  /\ client \in Clients

ValidExperimentId(a) ==
  \/ a.t \in {"string", "number"} /\ a.s \notin {"", "0"}
  \/ NonEmptyId(a)

\* encodeURIComponent of the strings the dimension filters carry.
ExpectedEncoding ==
  ("d1" :> "d1") @@ ("v1" :> "v1") @@ ("5" :> "5") @@ ("0" :> "0")
    @@ ("a b" :> "a%20b") @@ ("x&y=1" :> "x%26y%3D1") @@ ("a/b?" :> "a%2Fb%3F")

\* C10: getResults and getStats with a valid experiment id: without a
\* dimension filter the URL is experiments/<id>/results (or /stats) and
\* nothing more; with a filter, a request is issued only if dimension.id and
\* dimension.value are both there, to that URL followed by
\* ?dimension_id=<id>&dimension_value=<value>, both percent-encoded; if
\* either is missing the validation Error is thrown and nothing is issued.
C10_DimensionFilter ==
  (last.op \in {"getResults", "getStats"} /\ ValidExperimentId(last.a)) =>
    LET a == last.a
        id == IF a.t = "object" THEN a.o["id"].s ELSE a.s
        path == client.baseUrl \o "experiments/" \o id
                  \o (IF last.op = "getResults" THEN "/results" ELSE "/stats")
        filtered == a.t = "object" /\ "dimension" \in DOMAIN a.o
        dim == a.o["dimension"]
    IN  IF ~filtered
          THEN /\ last.err = "none"
               /\ Len(last.reqs) = 1
               /\ last.reqs[1].name = "get"
               /\ last.reqs[1].url = path
          ELSE /\ last.reqs # <<>> =>
                    /\ Supplied(dim, "id")
                    /\ Supplied(dim, "value")
                    /\ Len(last.reqs) = 1
                    /\ last.reqs[1].name = "get"
                    /\ last.reqs[1].url =
                         path \o "?dimension_id=" \o ExpectedEncoding[dim.o["id"].s]
                              \o "&dimension_value=" \o ExpectedEncoding[dim.o["value"].s]
               /\ (~Supplied(dim, "id") \/ ~Supplied(dim, "value")) =>
                    (last.err = "Error" /\ last.reqs = <<>>)

\* getStats was called with a filter whose values need encoding.
C10_Witness ==
  /\ last.op = "getStats"
  /\ last.reqs # <<>>
  /\ last.reqs[1].url =
       client.baseUrl \o "experiments/7/stats?dimension_id=a%20b&dimension_value=x%26y%3D1"

---------------------------------------------------------------------------
(* Property of getExperimentByDescription (SpecFind).                      *)

IsList(data) ==
  data.t = "array" \/ (IsJsonText(data) /\ data.json.t = "array")

\* C9: getExperimentByDescription lists the project's experiments with one
\* GET; when the list arrives, as an array or as its JSON text, the result
\* is the first entry in list order whose description is the requested one,
\* compared exactly, and null when there is none.
C9_FindByDescription ==
  (find.pc = "done" /\ promise.state = "fulfilled" /\ IsList(find.data)) =>
    LET a == last.a
        list == IF IsJsonText(find.data) THEN find.data.json.a ELSE find.data.a
        want == IF Supplied(a, "description") THEN a.o["description"] ELSE last.b
        pid == IF a.t = "object" THEN a.o["project_id"].s ELSE a.s
        hits == {i \in 1..Len(list) :
                   "description" \in DOMAIN list[i].o /\ list[i].o["description"] = want}
        first == CHOOSE i \in hits : \A j \in hits : i <= j
    IN  /\ Len(last.reqs) = 1
        /\ invoked = 1
        /\ last.reqs[1].name = "get"
        /\ last.reqs[1].url = client.baseUrl \o "projects/" \o pid \o "/experiments/"
        /\ find.out = [state |-> "fulfilled",
                       value |-> IF hits = {} THEN Null ELSE list[first]]

\* The list arrived as text with two "B" entries after an "A" entry and the
\* first "B" entry was returned.
C9_Witness ==
  /\ find.pc = "done"
  /\ IsJsonText(find.data)
  /\ IsList(find.data)
  /\ Len(find.data.json.a) = 3
  /\ find.data.json.a[1] = Obj([id |-> Str("e1"), description |-> Str("A")])
  /\ find.data.json.a[2] = Obj([id |-> Str("e1"), description |-> Str("B")])
  /\ find.data.json.a[3] = Obj([id |-> Str("e2"), description |-> Str("B")])
  /\ last.b = Str("B")
  /\ find.out = [state |-> "fulfilled", value |-> find.data.json.a[2]]

---------------------------------------------------------------------------
(* Request headers and the mode asked for at construction (Spec).          *)

\* Bearer (OAuth2) mode was asked for by new OptimizelyClient(x[1], x[2], x[3]):
\* by the OAuth2 member of the options, or by a true third argument as in
\* the readme's usage.
BearerRequested(x) ==
  (Truthy(x[2]) /\ Truthy(Get(x[2], "OAuth2"))) \/ x[3] = Bool(TRUE)

\* The headers the mode asked for calls for, for the token String(x[1]).
ExpectedHeaders(x) ==
  IF BearerRequested(x)
    THEN ("Authorization" :> ("Bearer " \o String(x[1]).s))
           @@ ("Content-Type" :> "application/json")
    ELSE ("Token" :> String(x[1]).s) @@ ("Content-Type" :> "application/json")

\* The constructor calls that return this client.
ConstructedBy(c) ==
  {x \in CtorArgs :
     Construct(x[1], x[2], x[3]).err = "none" /\ Construct(x[1], x[2], x[3]).self = c}

\* C11: every request of a client carries Content-Type: application/json
\* and exactly one credential header, which is the one the constructor call
\* asked for: Authorization: Bearer <token> when bearer mode was asked for
\* (options.OAuth2, or a true third argument), Token: <token> otherwise.
C11_CredentialHeader ==
  \A i \in 1..Len(last.reqs) :
    LET headers == last.reqs[i].options.headers
    IN  /\ "Content-Type" \in DOMAIN headers
        /\ headers["Content-Type"] = "application/json"
        /\ Cardinality(DOMAIN headers \cap {"Authorization", "Token"}) = 1
        /\ \A x \in ConstructedBy(client) : headers = ExpectedHeaders(x)

---------------------------------------------------------------------------
(* Defaults of a created project (Spec).                                   *)

\* createProject's argument is an options object, or is left out.
IsOptions(a) == a.t = "object" \/ ~Truthy(a)

\* C12: createProject(options) issues one POST whose body has project_status
\* "Active" when options has none and ip_filter "" when options has none,
\* has a boolean include_jquery, and carries a non-empty project_status or
\* ip_filter of the caller unchanged.
C12_ProjectDefaults ==
  (last.op = "createProject" /\ IsOptions(last.a)) =>
    /\ last.err = "none"
    /\ Len(last.reqs) = 1
    /\ last.reqs[1].name = "post"
    /\ {"project_status", "ip_filter", "include_jquery"} \subseteq DOMAIN Body
    /\ Get(last.a, "project_status") = Undef => Body["project_status"] = Str("Active")
    /\ Get(last.a, "ip_filter") = Undef => Body["ip_filter"] = Str("")
    /\ Body["include_jquery"] \in {Bool(TRUE), Bool(FALSE)}
    /\ \A k \in {"project_status", "ip_filter"} :
         Supplied(last.a, k) => Body[k] = last.a.o[k]

\* createProject({project_name: "p"}) has been called: the body carries the
\* defaults next to the caller's project_name.
C12_Witness ==
  /\ last.op = "createProject"
  /\ last.a = Obj([project_name |-> Str("p")])
  /\ Len(last.reqs) = 1
  /\ Body = [project_name |-> Str("p"), project_status |-> Str("Active"),
             include_jquery |-> Bool(FALSE), ip_filter |-> Str("")]

\* createProject has been called with its own project_status and ip_filter.
C12_WitnessSupplied ==
  /\ last.op = "createProject"
  /\ Supplied(last.a, "project_status")
  /\ Supplied(last.a, "ip_filter")
  /\ last.a.o["project_status"] = Str("Archived")
  /\ Body["project_status"] = Str("Archived")

---------------------------------------------------------------------------
(* Identifiers of read and delete operations (Spec).                       *)

\* The URL path of the resource a read or delete operation addresses.
Resource(op) ==
  CASE op = "getProject" -> "projects/"
    [] op \in {"getExperiment", "deleteExperiment"} -> "experiments/"
    [] op \in {"getVariation", "deleteVariation"} -> "variations/"
    [] op = "getAudience" -> "audiences/"
    [] op = "getDimension" -> "dimensions/"

\* A non-empty identifier: a non-empty string or a non-zero number.
IsId(v) == v.t \in {"string", "number"} /\ ~IsJsonText(v) /\ Truthy(v)

\* The identifier the argument carries, bare or as its id member.
IdOf(a) == IF a.t = "object" THEN Get(a, "id") ELSE a

\* C13: a read or delete operation given a non-empty identifier, as a bare
\* string or number or as the id member of an object, issues one request to
\* <resource>/<id> with the identifier in its string form; getVariation(5),
\* getVariation("5") and getVariation({id: 5}) all request variations/5.
C13_BareOrObjectId ==
  (last.op \in ReadDeleteOps /\ IsId(IdOf(last.a))) =>
    /\ last.err = "none"
    /\ Len(last.reqs) = 1
    /\ last.reqs[1].url = client.baseUrl \o Resource(last.op) \o String(IdOf(last.a)).s

---------------------------------------------------------------------------
(* Bodies of update requests (Spec).                                       *)

UpdateOps ==
  {"updateProject", "updateExperiment", "updateVariation", "updateAudience",
   "updateDimension"}

\* The URL path of the resource an update operation addresses.
UpdateResource(op) ==
  CASE op = "updateProject" -> "projects/"
    [] op = "updateExperiment" -> "experiments/"
    [] op = "updateVariation" -> "variations/"
    [] op = "updateAudience" -> "audiences/"
    [] op = "updateDimension" -> "dimensions/"

\* The members of the caller's options other than the identifier that
\* JSON can carry.
OtherMembers(a) == {k \in DOMAIN a.o \ {"id"} : a.o[k] # Undef}

\* C14: an update operation given options with a non-empty id issues one PUT
\* to <resource>/<id>.  The body of updateVariation has exactly the members
\* id, description and js_component; the body of updateProject,
\* updateExperiment, updateAudience and updateDimension has every other
\* member of the caller's options and no id, which is in the URL only.
C14_UpdateBodies ==
  (last.op \in UpdateOps /\ NonEmptyId(last.a)) =>
    /\ last.err = "none"
    /\ Len(last.reqs) = 1
    /\ last.reqs[1].name = "put"
    /\ last.reqs[1].url =
         client.baseUrl \o UpdateResource(last.op) \o String(last.a.o["id"]).s
    /\ IF last.op = "updateVariation"
         THEN DOMAIN Body = {"id", "description", "js_component"}
         ELSE /\ "id" \notin DOMAIN Body
              /\ \A k \in OtherMembers(last.a) :
                   k \in DOMAIN Body /\ Body[k] = last.a.o[k]

\* What does hold of the PUT and of the bodies: as C14, with the id left in
\* the body by updateProject, updateAudience and updateDimension.
UpdateBodiesAsBuilt ==
  (last.op \in UpdateOps /\ NonEmptyId(last.a)) =>
    /\ last.err = "none"
    /\ Len(last.reqs) = 1
    /\ last.reqs[1].name = "put"
    /\ last.reqs[1].url =
         client.baseUrl \o UpdateResource(last.op) \o String(last.a.o["id"]).s
    /\ last.op = "updateVariation" =>
         DOMAIN Body = {"id", "description", "js_component"}
    /\ last.op = "updateExperiment" => "id" \notin DOMAIN Body
    /\ last.op \in {"updateProject", "updateAudience", "updateDimension"} =>
         "id" \in DOMAIN Body /\ Body["id"] = last.a.o["id"]
    /\ last.op # "updateVariation" =>
         \A k \in OtherMembers(last.a) :
           k \in DOMAIN Body /\ Body[k] = last.a.o[k]

\* What does hold of the identifier forms: a bare non-empty string, or an
\* object with a non-empty id, reaches <resource>/<id> in every read and
\* delete operation; a bare number does in getProject, getExperiment and
\* deleteExperiment and is rejected by the other four.
IdFormsAsBuilt ==
  (last.op \in ReadDeleteOps /\ IsId(IdOf(last.a))) =>
    IF last.a.t = "number"
         /\ last.op \notin {"getProject", "getExperiment", "deleteExperiment"}
      THEN last.err = "Error" /\ last.msg = "Required: options.id" /\ last.reqs = <<>>
      ELSE /\ last.err = "none"
           /\ Len(last.reqs) = 1
           /\ last.reqs[1].url =
                client.baseUrl \o Resource(last.op) \o String(IdOf(last.a)).s

---------------------------------------------------------------------------
(* The same call made twice with the caller's object (Spec).               *)

\* C15: an operation called again right after itself with the same
\* caller-held options object (and the same second argument) has the same
\* outcome as the first time: the same requests (method, URL, headers and
\* body), or the same exception.  pushExperiment(o) twice with o.id = "42"
\* updates experiments/42 twice.
C15_CallsIndependent ==
  [][(last.op # "none" /\ last'.op = last.op /\ last'.b = last.b /\ last'.a = o)
       => /\ last'.err = last.err
          /\ last'.msg = last.msg
          /\ last'.reqs = last.reqs]_vars

====
